---- MODULE Spec2Model ----
(***************************************************************************)
(* Model of the Dcard thread scraper: src/src/dcard.ts (page extractor,    *)
(* thread fetcher, retrying fetch) and src/src/storer.ts (relay client).   *)
(* One run of main is a sequential program; pc is its position.  The only  *)
(* concurrency is the reply fan-out of fetchAndStoreReplies.               *)
(***************************************************************************)
EXTENDS Integers, Sequences, FiniteSets, TLC

(***************************************************************************)
(* Bounds of the model and constants of the program.                       *)
(***************************************************************************)
MaxUrlLen == 3
MaxItems == 2
MaxReplies == 2

MAX_COMMENT_PAGES == 3
COMMENTS_PER_PAGE == 20
DefaultRetries == 3

(***************************************************************************)
(* Values.  Text is a sequence of characters.  An optional value           *)
(* (undefined / null in the source) is a sequence of at most one element.  *)
(***************************************************************************)
Absent == <<>>
Some(v) == <<v>>

UrlChars == {"/", "a"}
RECURSIVE StringsUpTo(_, _)
StringsUpTo(chars, n) ==
    IF n = 0 THEN {<<>>}
    ELSE LET shorter == StringsUpTo(chars, n - 1)
         IN  shorter \cup {Append(s, c) : s \in shorter, c \in chars}

Texts == {Absent, Some(<<>>), Some(<<"t">>)}
Urls == {Absent} \cup {Some(u) : u \in StringsUpTo(UrlChars, MaxUrlLen)}
Doms == [title : Texts, date : Texts, content : Texts, url : Urls]
\* The pages a whole run is followed from: every combination of present,
\* empty and absent fields, with a one-segment canonical URL.
RunDoms == {d \in Doms : d.url \in {Absent, Some(<<>>), Some(<<"a">>)}}

\* JavaScript truthiness of an optional string: defined and not empty.
Truthy(o) == o # Absent /\ o[1] # <<>>

\* s.split("/"): the pieces of s between the separators, in order.
RECURSIVE SplitSlash(_)
SplitSlash(s) ==
    IF \A k \in 1..Len(s) : s[k] # "/" THEN <<s>>
    ELSE LET k == CHOOSE k \in 1..Len(s) :
                      s[k] = "/" /\ \A j \in 1..(k - 1) : s[j] # "/"
         IN  <<SubSeq(s, 1, k - 1)>> \o SplitSlash(SubSeq(s, k + 1, Len(s)))

\* Mutant: the first element instead of the last.
PopFirst(a) == a[1]

\* array.pop(): the last element of a non-empty array.
Pop(a) == a[Len(a)]

\* url?.split("/").pop()
ArticleIdOf(url) == IF url = Absent THEN Absent ELSE Some(Pop(SplitSlash(url[1])))

ScrapeFails(d) ==
    \/ ~Truthy(d.title)
    \/ ~Truthy(d.date)
    \/ ~Truthy(d.content)
    \/ ~Truthy(d.url)
    \/ ~Truthy(ArticleIdOf(d.url))

scrapeArticleData(d) ==
    [id |-> ArticleIdOf(d.url)[1], url |-> d.url[1], title |-> d.title[1],
     content |-> d.content[1], created_at |-> d.date[1]]

NoArticle == [id |-> <<>>, url |-> <<>>, title |-> <<>>, content |-> <<>>,
              created_at |-> <<>>]

(***************************************************************************)
(* Network outcomes.  A call either gets a response with a status or       *)
(* throws (network / transport exception).                                 *)
(***************************************************************************)
Response(s) == [kind |-> "response", status |-> s]
NetError == [kind |-> "error", status |-> 0]
NoResult == [kind |-> "none", status |-> 0]

FetchOutcomes == {Response(200), Response(429), Response(500), NetError}
PostOutcomes == {Response(201), Response(500), NetError}

\* Response.ok
Ok(r) == r.kind = "response" /\ r.status >= 200 /\ r.status <= 299

\* storeArticle / storeComment / storeReply: how the promise settles for a
\* given outcome of the POST (try: response.ok ? true : false; catch: false).
Resolved(b) == [settled |-> "resolved", value |-> b]
Rejected == [settled |-> "rejected", value |-> FALSE]
NotSettled == [settled |-> "pending", value |-> FALSE]

\* Mutant: the status of the response is not looked at.
StoreResultNoOkCheck(out) ==
    IF out.kind = "error" THEN Resolved(FALSE) ELSE Resolved(TRUE)

StoreResult(out) ==
    IF out.kind = "error" THEN Resolved(FALSE)
    ELSE IF ~Ok(out) THEN Resolved(FALSE)
    ELSE Resolved(TRUE)

\* Mutant: the retry budget off by one.
FwrRetriesOneMore(out, r) ==
    \/ out.kind = "response" /\ out.status = 429 /\ r >= 0
    \/ out.kind = "error" /\ r >= 0

\* fetchWithRetry: does this outcome, with this many retries left, lead to a
\* pause and a recursive call with retries - 1?
FwrRetries(out, r) ==
    \/ out.kind = "response" /\ out.status = 429 /\ r > 0
    \/ out.kind = "error" /\ r > 0

\* Mutant: fetchAndStoreReplies without its try/catch, so that what is thrown
\* in it reaches the catch of fetchComments' caller chain up to main.
CatchSiteNoneInReplies(c) ==
    IF c = "comments" THEN "fetchComments" ELSE "main"

\* The try/catch that an exception thrown by fetchWithRetry (or by
\* response.json()) reaches first, by the caller it was awaited in.
CatchSite(c) ==
    IF c = "comments" THEN "fetchComments" ELSE "fetchAndStoreReplies"

(***************************************************************************)
(* What the remote API can answer.                                         *)
(***************************************************************************)
SubCounts == {0, 3}
Cursors == {Absent, Some(<<>>), Some(<<"k">>), Some(<<"m">>)}
\* The cursors of a remote API whose pages all end with the same one.
RunCursors == {Absent, Some(<<>>), Some(<<"k">>)}
\* The ids the remote API can put in an item: a string, possibly empty.
ItemIds == {<<>>, <<"c">>}
\* The ids of a remote API that never serves an empty one.
GoodIds == {<<"c">>}
Items == [subCommentCount : SubCounts, id : ItemIds]
ItemSeqs == UNION {[1..n -> Items] : n \in 0..MaxItems}
\* DcardReplyResponse: an array of reply items.
ReplyItems == [id : ItemIds]
ReplyBodies == UNION {[1..n -> ReplyItems] : n \in 0..MaxReplies}

\* The NewCommentDto / NewReplyDto built from an item: its id is the item's.
CommentOf(item) == [id |-> item.id]
ReplyOf(item) == [id |-> item.id]
CommentBodies == [items : ItemSeqs, nextKey : Cursors]
NoPage == [items |-> <<>>, nextKey |-> Absent]

NoRequest == [api |-> "none", cursor |-> Absent, parent |-> <<>>, limit |-> 0]
CommentsRequest(key) ==
    [api |-> "comments", cursor |-> IF Truthy(key) THEN key ELSE Absent,
     parent |-> <<>>, limit |-> 0]
RepliesRequest(c) ==
    [api |-> "replies", cursor |-> Absent, parent |-> c, limit |-> COMMENTS_PER_PAGE]

(***************************************************************************)
(* formatAuthor                                                            *)
(***************************************************************************)
\* The user data of an item: school and gender are strings, the other fields
\* may be undefined.
Flags == {Absent, Some(TRUE), Some(FALSE)}
Payloads ==
    [withNickname : Flags,
     personaNickname : {Absent, Some(<<>>), Some(<<"n">>)},
     personaUid : {Absent, Some(<<>>), Some(<<"u">>)},
     school : {<<"s">>},
     department : {Absent, Some(<<>>), Some(<<"d">>)},
     gender : {<<"F">>}]
NoPayload ==
    [withNickname |-> Absent, personaNickname |-> Absent, personaUid |-> Absent,
     school |-> <<>>, department |-> Absent, gender |-> <<>>]

\* What a template literal puts for ${o}: the string, or "undefined".
Undefined == <<"u", "n", "d", "e", "f", "i", "n", "e", "d">>
Render(o) == IF o = Absent THEN Undefined ELSE o[1]

\* data.withNickname as a condition
IsTrue(flag) == flag = Some(TRUE)

\* Mutant: one persona field is enough.
HasPersonaEither(data) ==
    Truthy(data.personaNickname) \/ Truthy(data.personaUid)

\* data.personaNickname && data.personaUid
HasPersona(data) == Truthy(data.personaNickname) /\ Truthy(data.personaUid)

formatAuthor(data) ==
    IF IsTrue(data.withNickname) /\ HasPersona(data)
    THEN Render(data.personaNickname) \o <<" ", "(", "@">>
         \o Render(data.personaUid) \o <<",", " ">> \o data.gender \o <<")">>
    ELSE IF IsTrue(data.withNickname)
    THEN <<"@">> \o data.school \o <<" ", "(", "@">>
         \o Render(data.department) \o <<",", " ">> \o data.gender \o <<")">>
    ELSE data.school
         \o (IF Truthy(data.department) THEN <<" ">> \o Render(data.department)
                                        ELSE <<>>)
         \o <<" ", "(">> \o data.gender \o <<")">>

(***************************************************************************)
(* State.                                                                  *)
(***************************************************************************)
VARIABLES
    payload,        \* the user data formatAuthor is given
    author,         \* what formatAuthor returned, once it has
    dom,            \* the rendered page
    apiIds,         \* the item ids the remote API serves in this run
    apiCursors,     \* the nextKey values the remote API serves in this run
    pc,             \* position of the run
    article,        \* the record scrapeArticleData returned
    articleStored,  \* how storer.storeArticle settled
    commentStored,  \* how the latest storer.storeComment settled
    mainCaught,     \* main's catch block ran
    i,              \* fetchComments: page index
    nextKey,        \* fetchComments: cursor
    page,           \* fetchComments: parsed body of the current page
    idx,            \* fetchComments: position in page.items (0 before the first)
    caller,         \* fetchWithRetry: who awaits it
    retries,        \* fetchWithRetry: retries left
    result,         \* what the latest fetchWithRetry returned or threw
    replyPosts,     \* fetchAndStoreReplies: how each storeReply settled
    replies,        \* fetchAndStoreReplies: the replies array
    req,            \* the latest request sent to the remote API
    \* bookkeeping of what has happened in the run
    frames,         \* the recursive calls of fetchWithRetry that are open: for
                    \* each, whether it was made in the try block ("try", after
                    \* a 429) or in the catch block ("catch", after an error)
    lastApi,        \* the latest of: an API GET sent ("get"), a delay elapsed
                    \* ("delay"); "none" before both
    allComments,    \* number of comments pushed to fetchComments' list
    netCalls,       \* kinds of network calls made
    pageRequests,   \* fetchWithRetry calls made for comment pages
    attempts,       \* fetch calls made by the current fetchWithRetry call
    pauses,         \* pauses made by the current fetchWithRetry call
    itemReplyFetches, \* fetchAndStoreReplies calls made for the current item
    sawLastPage,    \* a fetched page had no usable nextKey
    relayed,        \* records of the current group (the article, or a comment
                    \* with its replies) handed to the relay client
    posts,          \* POSTs sent to the backend for the current group
    undelivered,    \* records of the current group the backend has not
                    \* accepted so far
    lostEarlier     \* a record of an earlier group was never accepted

vars == <<dom, apiIds, apiCursors, payload, author, pc, article, articleStored, commentStored, mainCaught, i, nextKey,
          page, idx, allComments, caller, retries, result, replyPosts,
          replies, req, frames, lastApi, netCalls,
          pageRequests, attempts, pauses, itemReplyFetches, sawLastPage,
          relayed, posts, undelivered, lostEarlier>>

authorVars == <<payload, author>>
mainVars == <<dom, apiIds, apiCursors, authorVars, article, articleStored, mainCaught>>
loopVars == <<i, nextKey, page, idx, allComments>>
fwrVars == <<caller, retries, result, attempts, pauses, req, frames,
            lastApi>>
relayVars == <<relayed, posts, undelivered, lostEarlier>>
replyVars == <<replyPosts, replies>>

\* The state when main is called, but for the page it runs on.
InitRun ==
    /\ pc = "main"
    /\ article = NoArticle
    /\ articleStored = NotSettled
    /\ commentStored = NotSettled
    /\ mainCaught = FALSE
    /\ i = 0
    /\ nextKey = Absent
    /\ page = NoPage
    /\ idx = 0
    /\ allComments = 0
    /\ caller = "none"
    /\ retries = 0
    /\ result = NoResult
    /\ replyPosts = <<>>
    /\ replies = <<>>
    /\ req = NoRequest
    /\ frames = <<>>
    /\ lastApi = "none"
    /\ netCalls = {}
    /\ pageRequests = 0
    /\ attempts = 0
    /\ pauses = 0
    /\ itemReplyFetches = 0
    /\ sawLastPage = FALSE
    /\ relayed = 0
    /\ posts = 0
    /\ undelivered = 0
    /\ lostEarlier = FALSE

NoAuthor == payload = NoPayload /\ author = Absent

\* The remote API of the main specification: no empty id, one cursor.
PlainApi == apiIds = GoodIds /\ apiCursors = RunCursors

Init == dom \in RunDoms /\ PlainApi /\ NoAuthor /\ InitRun

\* What the backend keeps: the record of a POST it answered with success.
Acks(out) == IF Ok(out) THEN 1 ELSE 0

(***************************************************************************)
(* main                                                                    *)
(***************************************************************************)
\* main, up to the await of storer.storeArticle: scrape the page, then send
\* the article POST; a scrape error goes straight to main's catch.
MainScrape ==
    /\ pc = "main"
    /\ IF ScrapeFails(dom)
       THEN /\ mainCaught' = TRUE
            /\ pc' = "finished"
            /\ UNCHANGED <<article, netCalls, relayVars>>
       ELSE /\ article' = scrapeArticleData(dom)
            /\ pc' = "storeArticle"
            /\ netCalls' = netCalls \cup {"articlePost"}
            /\ relayed' = 1
            /\ posts' = 1
            /\ undelivered' = 1
            /\ UNCHANGED <<mainCaught, lostEarlier>>
    /\ UNCHANGED <<dom, apiIds, apiCursors, authorVars, articleStored, commentStored, loopVars, fwrVars,
                   replyVars, pageRequests, itemReplyFetches, sawLastPage>>

\* Mutant: main goes on whatever storeArticle resolved to.
MainAbortsNever(stored) == FALSE

\* if (!articleStored) return
MainAborts(stored) == ~stored.value

\* storer.storeArticle settles; main aborts unless it resolved to true, and
\* otherwise enters fetchComments.
MainArticleStored ==
    /\ pc = "storeArticle"
    /\ \E out \in PostOutcomes :
         LET r == StoreResult(out) IN
         /\ articleStored' = r
         /\ undelivered' = undelivered - Acks(out)
         /\ IF r.settled = "rejected"
            THEN mainCaught' = TRUE /\ pc' = "finished"
            ELSE IF MainAborts(r)
            THEN mainCaught' = mainCaught /\ pc' = "finished"
            ELSE mainCaught' = mainCaught /\ pc' = "pageLoop"
    /\ i' = 0
    /\ nextKey' = Absent
    /\ allComments' = 0
    /\ UNCHANGED <<dom, apiIds, apiCursors, authorVars, article, commentStored, page, idx, fwrVars, replyVars,
                   netCalls, pageRequests, itemReplyFetches, sawLastPage,
                   relayed, posts, lostEarlier>>

(***************************************************************************)
(* Exceptions: control goes to the catch block of `site`.                  *)
(*   fetchComments' catch breaks the page loop; fetchAndStoreReplies'      *)
(*   catch returns [] to the item loop; main's catch ends the run.  An     *)
(*   exception no try block of main or below catches would leave main and  *)
(*   reach main().catch(console.error).                                    *)
(***************************************************************************)
CatchIn(site) ==
    /\ pc' = CASE site = "fetchComments" -> "commentsDone"
               [] site = "fetchAndStoreReplies" -> "nextItem"
               [] site = "main" -> "finished"
               [] OTHER -> "unhandled"
    /\ mainCaught' = (mainCaught \/ site = "main")

(***************************************************************************)
(* fetchWithRetry                                                          *)
(***************************************************************************)
\* Mutant: return await fetchWithRetry(url, retries - 1)
ReturnAwaitsInner == TRUE

\* return fetchWithRetry(url, retries - 1): the promise of the inner call is
\* returned as it is, the try block does not await it.
ReturnAwaits == FALSE

\* The innermost open call made from a try block that awaits it: the level
\* whose catch block gets what the innermost call throws; 0 if there is none.
CatchingLevel(fs) ==
    LET tries == {k \in DOMAIN fs : fs[k] = "try"} IN
    IF ReturnAwaits /\ tries # {}
    THEN CHOOSE k \in tries : \A j \in tries : j <= k
    ELSE 0

\* One fetch(url) of the current fetchWithRetry call.  On a 429 or a thrown
\* error with retries left it pauses and calls itself with retries - 1; the
\* inner call is returned, not awaited, so what it throws is not caught by
\* the outer level.  Otherwise the response is returned or the error thrown.
FwrFetch ==
    /\ pc = "fetch"
    /\ \E out \in FetchOutcomes :
         /\ attempts' = attempts + 1
         /\ netCalls' = netCalls \cup
                {IF caller = "comments" THEN "commentsGet" ELSE "repliesGet"}
         /\ IF FwrRetries(out, retries)
            THEN /\ pauses' = pauses + 1
                 /\ retries' = retries - 1
                 /\ frames' = Append(frames, IF out.kind = "error" THEN "catch"
                                                                   ELSE "try")
                 /\ lastApi' = "delay"  \* await delay(RATE_LIMIT_PAUSE_MS)
                 /\ UNCHANGED <<pc, result>>
            ELSE IF out.kind = "error" /\ CatchingLevel(frames) > 0
            THEN LET k == CatchingLevel(frames) IN
                 \* the level that made call k catches the error and retries
                 /\ pauses' = pauses + 1
                 /\ retries' = retries + Len(frames) - k
                 /\ frames' = Append(SubSeq(frames, 1, k - 1), "catch")
                 /\ lastApi' = "delay"
                 /\ UNCHANGED <<pc, result>>
            ELSE /\ result' = out
                 /\ frames' = <<>>
                 /\ lastApi' = "get"
                 /\ pc' = IF caller = "comments" THEN "pageFetched"
                                                 ELSE "repliesFetched"
                 /\ UNCHANGED <<pauses, retries>>
    /\ UNCHANGED <<mainVars, commentStored, loopVars, caller, req, replyVars,
                   pageRequests, itemReplyFetches, sawLastPage, relayVars>>

(***************************************************************************)
(* fetchComments                                                           *)
(***************************************************************************)
\* Mutant: the loop condition off by one.
LoopContinuesOneMore(n) == n <= MAX_COMMENT_PAGES

\* for (let i = 0; i < MAX_COMMENT_PAGES; i++): the loop condition
LoopContinues(n) == n < MAX_COMMENT_PAGES

\* Mutant: the second page is requested without a delay, too.
PageDelaysLate(n) == n > 1

\* if (i > 0) await delay(API_REQUEST_DELAY_MS)
PageDelays(n) == n > 0

\* Head of the page loop: the loop condition, the delay before every page
\* but the first, and the call of fetchWithRetry for the page.
PageLoop ==
    /\ pc = "pageLoop"
    /\ IF LoopContinues(i)
       THEN /\ pc' = "fetch"
            /\ caller' = "comments"
            /\ retries' = DefaultRetries
            /\ attempts' = 0
            /\ pauses' = 0
            /\ req' = CommentsRequest(nextKey)
            /\ pageRequests' = pageRequests + 1
            /\ lastApi' = IF PageDelays(i) THEN "delay" ELSE lastApi
            /\ UNCHANGED <<result, frames>>
       ELSE /\ pc' = "commentsDone"
            /\ UNCHANGED <<fwrVars, pageRequests>>
    /\ UNCHANGED <<mainVars, commentStored, loopVars, replyVars, netCalls,
                   itemReplyFetches, sawLastPage, relayVars>>

\* Mutant: a failed page is taken for a page without items.
AfterFailedPageGoesOn == "nextItem"

\* Where a non-ok comments page leads: break, out of the page loop.
AfterFailedPage == "commentsDone"

\* fetchWithRetry came back for a comments page: an exception goes to the
\* catch, a non-ok response breaks the loop, an ok response is parsed.
PageFetched ==
    /\ pc = "pageFetched"
    /\ \/ /\ result.kind = "error"
          /\ CatchIn(CatchSite("comments"))
          /\ UNCHANGED <<page, idx, sawLastPage>>
       \/ /\ result.kind = "response" /\ ~Ok(result)
          /\ pc' = AfterFailedPage
          /\ UNCHANGED <<mainCaught, page, idx, sawLastPage>>
       \/ /\ Ok(result)
          /\ \/ /\ CatchIn(CatchSite("comments"))  \* response.json() throws
                /\ UNCHANGED <<page, idx, sawLastPage>>
             \/ \E body \in CommentBodies :
                  /\ \A k \in DOMAIN body.items : body.items[k].id \in apiIds
                  /\ body.nextKey \in apiCursors
                  /\ page' = body
                  /\ idx' = 0
                  /\ pc' = "nextItem"
                  /\ sawLastPage' = (sawLastPage \/ ~Truthy(body.nextKey))
                  /\ UNCHANGED mainCaught
    /\ retries' = 0 /\ attempts' = 0 /\ pauses' = 0  \* the call is over
    /\ UNCHANGED <<dom, apiIds, apiCursors, authorVars, article, articleStored, commentStored, i, nextKey,
                   allComments, caller, result, req, frames, lastApi, replyVars,
                   netCalls,
                   pageRequests, itemReplyFetches, relayVars>>

\* Mutant: only a null cursor ends the pagination, an empty one does not.
NoMorePagesNullOnly(key) == key = Absent

\* if (!nextKey) break
NoMorePages(key) == ~Truthy(key)

\* Mutant: the replies are fetched for every item.
HasRepliesAlways(item) == item.subCommentCount >= 0

\* if (item.subCommentCount > 0)
HasReplies(item) == item.subCommentCount > 0

\* Mutant: once set, the cursor is kept.
NextCursorKeepsFirst(current, returned) ==
    IF Truthy(current) THEN current ELSE returned

\* nextKey = data.nextKey
NextCursor(current, returned) == returned

\* The item loop: the next item is made a comment and handed to
\* storer.storeComment; after the last item the cursor is advanced and the
\* page loop either breaks or goes on to i + 1.
NextItem ==
    /\ pc = "nextItem"
    /\ IF idx < Len(page.items)
       THEN /\ idx' = idx + 1
            /\ allComments' = allComments + 1
            /\ itemReplyFetches' = 0
            /\ relayed' = 1
            /\ posts' = 1
            /\ undelivered' = 1
            /\ lostEarlier' = (lostEarlier \/ undelivered > 0)
            /\ netCalls' = netCalls \cup {"commentPost"}
            /\ pc' = "storeComment"
            /\ UNCHANGED <<i, nextKey>>
       ELSE /\ nextKey' = NextCursor(nextKey, page.nextKey)
            /\ IF NoMorePages(page.nextKey)
               THEN /\ pc' = "commentsDone"
                    /\ UNCHANGED i
               ELSE /\ i' = i + 1
                    /\ pc' = "pageLoop"
            /\ UNCHANGED <<idx, allComments, itemReplyFetches, relayVars,
                           netCalls>>
    /\ UNCHANGED <<mainVars, commentStored, page, fwrVars, replyVars,
                   pageRequests, sawLastPage>>

\* Mutant: the replies are fetched only when the comment was stored.
AfterCommentIfStored(stored, item) ==
    IF stored.value /\ HasReplies(item) THEN "replies" ELSE "next"

\* What fetchComments does with an item once storeComment has settled: the
\* settled value is not looked at, only item.subCommentCount.
AfterComment(stored, item) == IF HasReplies(item) THEN "replies" ELSE "next"

\* storer.storeComment settles with the POST's outcome `out`; then, if the
\* item has replies, fetchAndStoreReplies starts: delay, fetchWithRetry.
CommentSettled(out) ==
    LET r == StoreResult(out) IN
    /\ pc = "storeComment"
    /\ commentStored' = r
    /\ undelivered' = undelivered - Acks(out)
    /\ IF r.settled = "rejected"
       THEN /\ CatchIn("fetchComments")
            /\ UNCHANGED <<fwrVars, itemReplyFetches>>
       ELSE IF AfterComment(r, page.items[idx]) = "replies"
       THEN /\ pc' = "fetch"
            /\ caller' = "replies"
            /\ retries' = DefaultRetries
            /\ attempts' = 0
            /\ pauses' = 0
            /\ req' = RepliesRequest(<<i, idx>>)
            /\ lastApi' = "delay"  \* await delay(API_REQUEST_DELAY_MS)
            /\ itemReplyFetches' = itemReplyFetches + 1
            /\ UNCHANGED <<result, frames, mainCaught>>
       ELSE /\ pc' = "nextItem"
            /\ UNCHANGED <<fwrVars, itemReplyFetches, mainCaught>>
    /\ UNCHANGED <<dom, apiIds, apiCursors, authorVars, article, articleStored, loopVars, replyVars, netCalls,
                   pageRequests, sawLastPage, relayed, posts, lostEarlier>>

\* Mutant: storeComment sends the POST again when it failed.
CommentStoredResends ==
    \E out \in PostOutcomes :
        IF ~Ok(out) /\ posts < 2
        THEN /\ pc = "storeComment"
             /\ posts' = posts + 1
             /\ UNCHANGED <<mainVars, commentStored, pc, loopVars, fwrVars,
                            replyVars, netCalls, pageRequests,
                            itemReplyFetches, sawLastPage, relayed, undelivered,
                            lostEarlier>>
        ELSE CommentSettled(out)

CommentStored == \E out \in PostOutcomes : CommentSettled(out)

(***************************************************************************)
(* fetchAndStoreReplies                                                    *)
(***************************************************************************)
\* Mutant: a failed replies request ends the comments of the article.
AfterFailedRepliesGivesUp == "commentsDone"

\* Where a non-ok replies response leads: return [], back in the item loop.
AfterFailedReplies == "nextItem"

\* fetchWithRetry came back for the replies of the current comment: an
\* exception or a non-ok response gives [], an ok response is parsed and
\* data.map sends one storeReply POST per reply, all before any settles.
RepliesFetched ==
    /\ pc = "repliesFetched"
    /\ \/ /\ result.kind = "error"
          /\ CatchIn(CatchSite("replies"))
          /\ UNCHANGED <<replyVars, netCalls, relayVars>>
       \/ /\ result.kind = "response" /\ ~Ok(result)
          /\ pc' = AfterFailedReplies
          /\ UNCHANGED <<mainCaught, replyVars, netCalls, relayVars>>
       \/ /\ Ok(result)
          /\ \/ /\ CatchIn(CatchSite("replies"))  \* response.json() throws
                /\ UNCHANGED <<replyVars, netCalls, relayVars>>
             \/ \E data \in ReplyBodies : LET n == Len(data) IN
                  /\ \A r \in 1..n : data[r].id \in apiIds
                  /\ replies' = [r \in 1..n |-> ReplyOf(data[r])]
                  /\ replyPosts' = [r \in 1..n |-> NotSettled]
                  /\ relayed' = relayed + n
                  /\ posts' = posts + n
                  /\ undelivered' = undelivered + n
                  /\ UNCHANGED lostEarlier
                  /\ netCalls' = IF n > 0 THEN netCalls \cup {"replyPost"}
                                          ELSE netCalls
                  /\ pc' = "joinReplies"
                  /\ UNCHANGED mainCaught
    /\ retries' = 0 /\ attempts' = 0 /\ pauses' = 0  \* the call is over
    /\ UNCHANGED <<dom, apiIds, apiCursors, authorVars, article, articleStored, commentStored, loopVars,
                   caller, result, req, frames, lastApi, pageRequests,
                   itemReplyFetches, sawLastPage>>

\* Mutant: a storeReply call that fails takes the calls still in flight down
\* with it.
ReplyStoredCancels ==
    /\ \E r \in DOMAIN replyPosts : \E out \in PostOutcomes :
         /\ replyPosts[r] = NotSettled
         /\ replyPosts' =
              IF Ok(out)
              THEN [replyPosts EXCEPT ![r] = StoreResult(out)]
              ELSE [q \in DOMAIN replyPosts |->
                      IF replyPosts[q] = NotSettled THEN Resolved(FALSE)
                                                    ELSE replyPosts[q]]
         /\ UNCHANGED replies
         /\ undelivered' = undelivered - Acks(out)
    /\ UNCHANGED <<mainVars, commentStored, pc, loopVars, fwrVars, netCalls,
                   pageRequests, itemReplyFetches, sawLastPage, relayed, posts,
                   lostEarlier>>

\* One of the storeReply calls in flight settles, wherever the caller is.
ReplyStored ==
    /\ \E r \in DOMAIN replyPosts : \E out \in PostOutcomes :
         /\ replyPosts[r] = NotSettled
         /\ replyPosts' = [replyPosts EXCEPT ![r] = StoreResult(out)]
         /\ UNCHANGED replies
         /\ undelivered' = undelivered - Acks(out)
    /\ UNCHANGED <<mainVars, commentStored, pc, loopVars, fwrVars, netCalls,
                   pageRequests, itemReplyFetches, sawLastPage, relayed, posts,
                   lostEarlier>>

\* Mutant: the promises are not awaited.
AllFulfilledOrNot(ps) == TRUE

\* Mutant: the join is over only when every reply was stored.
AllStored(ps) == \A r \in DOMAIN ps : ps[r] = Resolved(TRUE)

\* Promise.all fulfils when every promise has resolved, whatever the values.
AllFulfilled(ps) == \A r \in DOMAIN ps : ps[r].settled = "resolved"

\* The storeReply calls still in flight.
Pending(ps) == {r \in DOMAIN ps : ps[r] = NotSettled}

\* await Promise.all(storePromises): fulfils when every promise has resolved,
\* rejects as soon as one has rejected; then fetchAndStoreReplies returns.
\* Returning does not settle a call that is still in flight.
RepliesJoined ==
    /\ pc = "joinReplies"
    /\ \/ /\ AllFulfilled(replyPosts)
          /\ pc' = "nextItem"
          /\ UNCHANGED mainCaught
       \/ /\ \E r \in DOMAIN replyPosts : replyPosts[r].settled = "rejected"
          /\ CatchIn("fetchAndStoreReplies")
    /\ IF Pending(replyPosts) = {}
       THEN replyPosts' = <<>> /\ replies' = <<>>
       ELSE UNCHANGED replyVars
    /\ UNCHANGED <<dom, apiIds, apiCursors, authorVars, article, articleStored, commentStored, loopVars,
                   fwrVars, netCalls, pageRequests, itemReplyFetches,
                   sawLastPage, relayVars>>

\* fetchComments returns its list and main logs the end of the extraction.
CommentsDone ==
    /\ pc = "commentsDone"
    /\ pc' = "finished"
    /\ UNCHANGED <<mainVars, commentStored, loopVars, fwrVars, replyVars,
                   netCalls, pageRequests, itemReplyFetches, sawLastPage,
                   relayVars>>

Next ==
    \/ MainScrape
    \/ MainArticleStored
    \/ FwrFetch
    \/ PageLoop
    \/ PageFetched
    \/ NextItem
    \/ CommentStored
    \/ RepliesFetched
    \/ ReplyStored
    \/ RepliesJoined
    \/ CommentsDone

Spec == Init /\ [][Next]_vars

\* The run up to the article relay, from every page of Doms: the
\* specification under which the page extractor is checked.
ScrapeInit == dom \in Doms /\ PlainApi /\ NoAuthor /\ InitRun
ScrapeNext == MainScrape \/ MainArticleStored
ScrapeSpec == ScrapeInit /\ [][ScrapeNext]_vars

\* Every network call and every delay completes, and the continuation that
\* awaits it then runs.
FairSpec == Spec /\ WF_vars(Next)

\* The whole run against a remote API that may serve any id of ItemIds.
AnyIdInit ==
    /\ dom \in RunDoms
    /\ apiIds = ItemIds /\ apiCursors = RunCursors
    /\ NoAuthor /\ InitRun
AnyIdSpec == AnyIdInit /\ [][Next]_vars

\* The whole run against a remote API that may serve any cursor of Cursors.
AnyCursorInit ==
    /\ dom \in RunDoms
    /\ apiIds = GoodIds /\ apiCursors = Cursors
    /\ NoAuthor /\ InitRun
AnyCursorSpec == AnyCursorInit /\ [][Next]_vars

\* formatAuthor applied to the user data of an item.
FormatAuthor ==
    /\ author = Absent
    /\ author' = Some(formatAuthor(payload))
    /\ UNCHANGED <<dom, apiIds, apiCursors, payload, pc, article, articleStored,
                   commentStored, mainCaught, loopVars, fwrVars, replyVars,
                   netCalls, pageRequests, itemReplyFetches, sawLastPage,
                   relayVars>>

\* formatAuthor on every user data of Payloads.
AuthorInit ==
    /\ dom \in {d \in RunDoms : d.url = Absent}
    /\ PlainApi
    /\ payload \in Payloads
    /\ author = Absent
    /\ InitRun
AuthorSpec == AuthorInit /\ [][FormatAuthor]_vars

(***************************************************************************)
(* Properties.                                                             *)
(***************************************************************************)
InFetchComments ==
    pc \in {"pageLoop", "fetch", "pageFetched", "nextItem", "storeComment",
            "repliesFetched", "joinReplies", "commentsDone"}

ThreadCalls == {"commentsGet", "repliesGet", "commentPost", "replyPost"}

\* C1: no comments/replies request and no comment/reply relay happens unless
\* storeArticle has resolved to true; a run whose article relay failed ends
\* with no such call at all.
C1_ArticleRelayedFirst ==
    /\ (netCalls \cap ThreadCalls # {} \/ pageRequests > 0 \/ InFetchComments)
          => articleStored = Resolved(TRUE)
    /\ (pc = "finished" /\ articleStored # Resolved(TRUE))
          => (netCalls \subseteq {"articlePost"} /\ pageRequests = 0)

C1_Witness ==
    /\ pc = "finished"
    /\ articleStored = Resolved(FALSE)
    /\ netCalls = {"articlePost"}
    /\ pageRequests = 0

\* C2: fetchComments calls fetchWithRetry for at most MAX_COMMENT_PAGES comment
\* pages, also when every page is fetched and carries a cursor.
C2_PageRequestsBounded == pageRequests <= MAX_COMMENT_PAGES /\ i <= MAX_COMMENT_PAGES

C2_Witness ==
    /\ pc = "commentsDone"
    /\ pageRequests = MAX_COMMENT_PAGES
    /\ i = MAX_COMMENT_PAGES
    /\ Truthy(nextKey)
    /\ ~sawLastPage

\* C3: once a fetched page came without a usable cursor (null or empty),
\* fetchComments goes through that page's items and requests no further page.
C3_StopsAtLastPage ==
    sawLastPage =>
        /\ ~Truthy(page.nextKey)
        /\ pc \notin {"pageLoop", "pageFetched"}
        /\ pc = "fetch" => caller = "replies"
        /\ pageRequests = i + 1
        /\ pc \in {"commentsDone", "finished"} => idx = Len(page.items)

C3_Witness ==
    /\ sawLastPage
    /\ pc = "finished"
    /\ page.nextKey = Some(<<>>)
    /\ idx = MaxItems
    /\ pageRequests = 2

FwrReturned == pc \in {"pageFetched", "repliesFetched"}

\* C4: every 429 answered while retries are left costs one pause and one unit
\* of the budget; fetchWithRetry returns a 429 only after DefaultRetries
\* pauses, and fetchComments then stops paginating and relays nothing.
C4_RateLimitInv ==
    /\ pc = "fetch" =>
          (pauses = DefaultRetries - retries /\ attempts = pauses /\ retries >= 0)
    /\ (FwrReturned /\ result = Response(429)) =>
          (retries = 0 /\ pauses = DefaultRetries /\ attempts = DefaultRetries + 1)

C4_RateLimitStep ==
    /\ (pc = "fetch" /\ pauses' # pauses) =>
          (pc' = "fetch" /\ pauses' = pauses + 1 /\ retries' = retries - 1
           /\ attempts' = attempts + 1)
    /\ (pc = "pageFetched" /\ result = Response(429)) =>
          (pc' = "commentsDone" /\ page' = page /\ idx' = idx
           /\ relayVars' = relayVars /\ pageRequests' = pageRequests)

C4_RateLimited == []C4_RateLimitInv /\ [][C4_RateLimitStep]_vars

C4_Witness ==
    /\ pc = "commentsDone"
    /\ caller = "comments"
    /\ result = Response(429)
    /\ pageRequests = 2
    /\ i = 1

\* C5: a thrown fetch error is retried like a 429, DefaultRetries times at
\* most; the error thrown after that ends the pagination in fetchComments and
\* gives no replies in fetchAndStoreReplies, and never reaches main's catch.
C5_NetErrorInv ==
    /\ (FwrReturned /\ result = NetError) =>
          (retries = 0 /\ pauses = DefaultRetries /\ attempts = DefaultRetries + 1)
    /\ mainCaught => (pc = "finished" /\ netCalls = {})

C5_NetErrorStep ==
    /\ (pc = "pageFetched" /\ result = NetError) =>
          (pc' = "commentsDone" /\ ~mainCaught' /\ relayVars' = relayVars)
    /\ (pc = "repliesFetched" /\ result = NetError) =>
          (pc' = "nextItem" /\ ~mainCaught' /\ relayVars' = relayVars
           /\ replyPosts' = <<>>)

C5_NetErrorHandled == []C5_NetErrorInv /\ [][C5_NetErrorStep]_vars

C5_Witness ==
    /\ pc = "nextItem"
    /\ caller = "replies"
    /\ result = NetError
    /\ ~mainCaught

InRepliesOfItem ==
    caller = "replies" /\ pc \in {"fetch", "repliesFetched", "joinReplies"}

\* C6: fetchAndStoreReplies is called for an item only if its subCommentCount
\* is above 0, and then once, with one request (no cursor, limit
\* COMMENTS_PER_PAGE); an item with subCommentCount 0 gets no replies fetch.
C6_RepliesOnlyWithSubComments ==
    /\ itemReplyFetches <= 1
    /\ InRepliesOfItem =>
          /\ idx > 0
          /\ page.items[idx].subCommentCount > 0
          /\ itemReplyFetches = 1
          /\ req = [api |-> "replies", cursor |-> Absent, parent |-> <<i, idx>>,
                    limit |-> COMMENTS_PER_PAGE]
    /\ (idx > 0 /\ page.items[idx].subCommentCount = 0) => itemReplyFetches = 0
    /\ (pc = "nextItem" /\ idx > 0) =>
          itemReplyFetches = IF page.items[idx].subCommentCount > 0 THEN 1 ELSE 0

C6_Witness ==
    /\ pc = "nextItem"
    /\ idx = 2
    /\ page.items[1].subCommentCount > 0
    /\ page.items[2].subCommentCount = 0
    /\ itemReplyFetches = 0
    /\ "repliesGet" \in netCalls

\* A store call settled in this step the way the claim says: it resolved, to
\* true exactly when the backend accepted the POST, and sent nothing more.
SettledAsBoolean(before, after) ==
    /\ before = NotSettled
    /\ after.settled = "resolved"
    /\ after.value \in BOOLEAN
    /\ after.value <=> (undelivered' = undelivered - 1)
    /\ ~after.value => undelivered' = undelivered
    /\ posts' = posts

\* C7: storeArticle, storeComment and storeReply never reject; each resolves
\* to true exactly when its one POST got a successful status, to false on
\* any other status and on a network exception.
C7_StoreStep ==
    /\ pc = "storeArticle" => SettledAsBoolean(articleStored, articleStored')
    /\ pc = "storeComment" => SettledAsBoolean(NotSettled, commentStored')
    /\ (pc = "joinReplies" /\ pc' = "joinReplies") =>
          \E r \in DOMAIN replyPosts :
              /\ SettledAsBoolean(replyPosts[r], replyPosts'[r])
              /\ \A q \in DOMAIN replyPosts \ {r} : replyPosts'[q] = replyPosts[q]

C7_StoreResolvesBoolean == [][C7_StoreStep]_vars

C7_Witness ==
    /\ pc = "joinReplies"
    /\ articleStored = Resolved(TRUE)
    /\ commentStored = Resolved(FALSE)
    /\ \E r, q \in DOMAIN replyPosts :
          replyPosts[r] = Resolved(TRUE) /\ replyPosts[q] = Resolved(FALSE)

\* C8: whatever storeComment and storeReply resolve to, the run goes on: the
\* replies of the comment are fetched when its subCommentCount is above 0,
\* then the next item, then the next page.
C8_ContinueStep ==
    /\ pc = "storeComment" =>
          /\ pc' = IF page.items[idx].subCommentCount > 0 THEN "fetch"
                                                           ELSE "nextItem"
          /\ pc' = "fetch" => caller' = "replies"
          /\ idx' = idx /\ page' = page /\ i' = i
    /\ (pc = "joinReplies" /\ pc' # "joinReplies") => pc' = "nextItem"
    /\ (pc = "nextItem" /\ idx < Len(page.items)) =>
          (pc' = "storeComment" /\ idx' = idx + 1)
    /\ (pc = "nextItem" /\ idx = Len(page.items) /\ Truthy(page.nextKey)) =>
          (pc' = "pageLoop" /\ i' = i + 1)
    /\ (pc = "pageLoop" /\ i < MAX_COMMENT_PAGES) =>
          (pc' = "fetch" /\ caller' = "comments")

C8_FailedRelayContinues == [][C8_ContinueStep]_vars

C8_Witness ==
    /\ pc = "joinReplies"
    /\ commentStored = Resolved(FALSE)
    /\ Len(replyPosts) > 0
    /\ i = 1

\* id is the last path segment of url: what follows the last "/".
IsLastSegment(id, url) ==
    \E k \in 0..Len(url) :
        /\ id = SubSeq(url, k + 1, Len(url))
        /\ \A j \in 1..Len(id) : id[j] # "/"
        /\ k = 0 \/ url[k] = "/"

Missing(o) == Len(o) = 0 \/ Len(o[1]) = 0

RequiredMissing(d) ==
    \/ Missing(d.title)
    \/ Missing(d.date)
    \/ Missing(d.content)
    \/ Missing(d.url)
    \/ d.url[1][Len(d.url[1])] = "/"

\* C9: with a required value missing or empty (the id being the last path
\* segment of the canonical URL), scrapeArticleData throws, there is no
\* record and the run ends without a network call; otherwise the record
\* holds the page's values and its id is that last segment.
C9_ScrapeOutcome ==
    pc # "main" =>
        IF RequiredMissing(dom)
        THEN /\ article = NoArticle
             /\ mainCaught
             /\ pc = "finished"
             /\ netCalls = {}
             /\ relayed = 0 /\ posts = 0 /\ pageRequests = 0
        ELSE /\ IsLastSegment(article.id, dom.url[1])
             /\ Len(article.id) > 0
             /\ article.url = dom.url[1]
             /\ article.title = dom.title[1]
             /\ article.content = dom.content[1]
             /\ article.created_at = dom.date[1]
             /\ ~mainCaught
             /\ "articlePost" \in netCalls

C9_Witness ==
    /\ pc = "finished"
    /\ ~Missing(dom.title) /\ ~Missing(dom.date) /\ ~Missing(dom.content)
    /\ dom.url = Some(<<"a", "/">>)
    /\ mainCaught
    /\ netCalls = {}

\* POSTs sent and not settled yet.
InFlight ==
    (IF pc \in {"storeArticle", "storeComment"} THEN 1 ELSE 0)
    + Cardinality(Pending(replyPosts))

\* Records of the current group whose POST has settled without the backend
\* accepting it.
Lost == undelivered - InFlight

\* C10 as stated: at the end of the run the backend has accepted every
\* record that was relayed.
C10_AtLeastOnce == pc = "finished" => (undelivered = 0 /\ ~lostEarlier)

\* C10 as amended: every relayed record is POSTed exactly once and never
\* sent again, so a record whose POST failed stays undelivered.
C10_AtMostOnce ==
    /\ [](posts = relayed /\ Lost >= 0)
    /\ [][/\ lostEarlier => lostEarlier'
          /\ Lost > 0 => (lostEarlier' \/ Lost' >= Lost)]_vars

C10_Witness ==
    /\ pc = "finished"
    /\ articleStored = Resolved(TRUE)
    /\ commentStored = Resolved(FALSE)
    /\ undelivered = 1
    /\ lostEarlier

\* C11: whenever a relay POST is sent, the record in it has a non-empty id.
C11_NonEmptyIds ==
    /\ pc = "storeArticle" => article.id # <<>>
    /\ pc = "storeComment" => CommentOf(page.items[idx]).id # <<>>
    /\ \A r \in DOMAIN replies : replies[r].id # <<>>

\* C12: whatever the page holds and the network answers, the run reaches its
\* finished state, and no exception leaves main.
C12_Terminates == <>(pc = "finished") /\ [](pc # "unhandled")

C12_Witness ==
    /\ pc = "finished"
    /\ articleStored = Resolved(TRUE)
    /\ commentStored = Resolved(FALSE)
    /\ result = NetError
    /\ i = 2
    /\ ~mainCaught

\* A comments page ends with a non-success status or an exception (thrown by
\* the fetch or by the parsing).
PageFailure == pc = "pageFetched" /\ (~Ok(result) \/ pc' # "nextItem")

C13_FailStep ==
    /\ PageFailure =>
          /\ pc' = "commentsDone"
          /\ UNCHANGED <<relayVars, allComments, netCalls, pageRequests>>
    /\ pc = "commentsDone" =>
          /\ pc' = "finished"
          /\ UNCHANGED <<relayVars, allComments, netCalls, pageRequests>>

\* C13: a failed comments page ends the pagination: no item of it is relayed,
\* no request follows, and the list fetchComments returns keeps every comment
\* of the earlier pages; nothing is undone or sent again.
C13_FailedPageEndsPagination == [][C13_FailStep]_vars

C13_Witness ==
    /\ pc = "finished"
    /\ caller = "comments"
    /\ result = Response(500)
    /\ i = 1
    /\ allComments = MaxItems
    /\ pageRequests = 2

\* What is in flight at each point of the item loop: the relay of a comment
\* alone, then its replies request alone, then the relays of its replies.
C14_OneAtATime ==
    /\ pc = "storeComment" => InFlight = 1
    /\ pc \in {"fetch", "pageFetched", "repliesFetched", "nextItem", "pageLoop",
               "commentsDone", "finished"} => InFlight = 0
    /\ pc = "joinReplies" => InFlight = Cardinality(Pending(replyPosts))
    /\ Pending(replyPosts) # {} => pc = "joinReplies"

\* Items are taken in the order of the page, the replies request of a comment
\* starts at the step its relay settles, and its reply relays are dispatched
\* by the step that reads the answer to that request.
C14_OrderStep ==
    /\ idx' # idx => (idx' = idx + 1 /\ pc = "nextItem") \/ idx' = 0
    /\ (pc' = "fetch" /\ caller' = "replies" /\ pc # "fetch") =>
          /\ pc = "storeComment"
          /\ commentStored'.settled = "resolved"
          /\ req' = RepliesRequest(<<i, idx>>)
    /\ Pending(replyPosts') # {} /\ Pending(replyPosts) = {} =>
          pc = "repliesFetched" /\ req = RepliesRequest(<<i, idx>>)

\* C14: comments are processed one at a time in the order of the API; the
\* relay of a comment completes before its replies are fetched, and the
\* replies fetch and every reply relay of a comment complete before the relay
\* of the next comment starts, so reply relays of two comments never overlap.
C14_Sequential == []C14_OneAtATime /\ [][C14_OrderStep]_vars

C14_Witness ==
    /\ pc = "storeComment"
    /\ idx = 2
    /\ HasReplies(page.items[1])
    /\ "replyPost" \in netCalls
    /\ itemReplyFetches = 0

\* The three kinds of step of fetchAndStoreReplies once the answer is there:
\* the dispatch of one POST per reply, all in flight together; the settling
\* of one POST, which leaves its siblings as they are; the return, once no
\* POST is in flight.
C15_JoinStep ==
    /\ (pc = "repliesFetched" /\ pc' = "joinReplies") =>
          /\ Len(replyPosts') = Len(replies')
          /\ Pending(replyPosts') = DOMAIN replies'
          /\ posts' = posts + Len(replies')
          /\ relayed' = relayed + Len(replies')
    /\ (pc = "joinReplies" /\ pc' = "joinReplies") =>
          /\ posts' = posts /\ relayed' = relayed /\ replies' = replies
          /\ DOMAIN replyPosts' = DOMAIN replyPosts
          /\ \E r \in Pending(replyPosts) :
                /\ replyPosts'[r].settled = "resolved"
                /\ \A q \in DOMAIN replyPosts \ {r} :
                      replyPosts'[q] = replyPosts[q]
    /\ (pc = "joinReplies" /\ pc' # "joinReplies") =>
          /\ Pending(replyPosts) = {}
          /\ pc' = "nextItem"
          /\ posts' = posts /\ posts = relayed

\* C15: the replies of a comment are relayed concurrently and joined: one
\* POST per reply, all dispatched before any settles; a reply whose relay
\* fails neither cancels nor holds back its siblings; fetchAndStoreReplies
\* returns only when every one of these relays has completed.
C15_ConcurrentJoin == [][C15_JoinStep]_vars

C15_Witness ==
    /\ pc = "joinReplies"
    /\ replyPosts = <<Resolved(FALSE), Resolved(TRUE)>>
    /\ posts = 3

\* The replies request of a comment ends with a non-success status or an
\* exception (thrown by the fetch or by the parsing).
RepliesFailure == pc = "repliesFetched" /\ (~Ok(result) \/ pc' # "joinReplies")

C16_FailStep ==
    RepliesFailure =>
        /\ pc' = "nextItem"
        /\ replyPosts = <<>>
        /\ UNCHANGED <<replyVars, relayVars, loopVars, netCalls, mainCaught>>

\* C16: a failed replies fetch relays no reply of that comment and is not
\* propagated: fetchComments goes on with the next comment and the following
\* pages as if the comment had no replies.
C16_FailedRepliesSkipped == [][C16_FailStep]_vars

C16_Witness ==
    /\ pc = "storeComment"
    /\ idx = 2
    /\ caller = "replies"
    /\ result = NetError
    /\ relayed = 1

\* C17: every API GET but the very first of the run is sent after a delay
\* that elapsed since the GET before it: the request delay before a comments
\* page after the first and before a replies request, the rate-limit pause
\* before a retry.
C17_DelayBeforeGet ==
    pc = "fetch" =>
        \/ lastApi = "delay"
        \/ /\ lastApi = "none"
           /\ netCalls \cap {"commentsGet", "repliesGet"} = {}
           /\ caller = "comments" /\ i = 0 /\ attempts = 0

C17_Witness ==
    /\ pc = "fetch"
    /\ caller = "replies"
    /\ attempts = 1
    /\ i = 1
    /\ lastApi = "delay"

\* The cursor a comments request carries: none for the first page, and for a
\* later page the nextKey of the page fetched last, all of whose items have
\* been relayed by then.
C18_CursorOfRequest ==
    (pc = "fetch" /\ caller = "comments") =>
        /\ req.api = "comments"
        /\ i = 0 => req.cursor = Absent
        /\ i > 0 => /\ Truthy(page.nextKey)
                    /\ req.cursor = page.nextKey
                    /\ idx = Len(page.items)
                    /\ InFlight = 0

\* The cursor moves only at the end of the item loop of a page, to the
\* nextKey of that page.
C18_CursorStep ==
    nextKey' # nextKey =>
        /\ pc = "nextItem" /\ idx = Len(page.items) /\ InFlight = 0
        /\ nextKey' = page.nextKey
        /\ page' = page

\* C18: the first comments request carries no cursor and every later one
\* carries exactly the nextKey of the page fetched just before it; the cursor
\* is never one of an older page, and it advances only after every item of
\* the page has been relayed.
C18_CursorChain == []C18_CursorOfRequest /\ [][C18_CursorStep]_vars

C18_Witness ==
    /\ pc = "fetch"
    /\ caller = "comments"
    /\ i = 2
    /\ req.cursor = Some(<<"m">>)
    /\ allComments = 2 * MaxItems

\* A field counts as present when it holds a non-empty string.
Present(o) == o # Absent /\ o # Some(<<>>)

WithoutPersona(data) ==
    [data EXCEPT !.personaNickname = Absent, !.personaUid = Absent]

\* C19: formatAuthor gives "{personaNickname} (@{personaUid}, {gender})" when
\* withNickname is true and both persona fields are present, otherwise
\* "@{school} (@{department}, {gender})" when withNickname is true, otherwise
\* "{school}", then " {department}" if the department is present, then
\* " ({gender})"; without withNickname the persona fields do not matter.
C19_AuthorForm ==
    author # Absent =>
        LET d == payload
            out == author[1]
            tail == <<",", " ">> \o d.gender \o <<")">>
            nick == d.withNickname = Some(TRUE)
            both == Present(d.personaNickname) /\ Present(d.personaUid)
        IN  /\ (nick /\ both) =>
                  out = d.personaNickname[1] \o <<" ", "(", "@">>
                        \o d.personaUid[1] \o tail
            /\ (nick /\ ~both) =>
                  out = <<"@">> \o d.school \o <<" ", "(", "@">>
                        \o Render(d.department) \o tail
            /\ (~nick /\ Present(d.department)) =>
                  out = d.school \o <<" ">> \o d.department[1]
                        \o <<" ", "(">> \o d.gender \o <<")">>
            /\ (~nick /\ ~Present(d.department)) =>
                  out = d.school \o <<" ", "(">> \o d.gender \o <<")">>
            /\ ~nick => out = formatAuthor(WithoutPersona(d))

C19_Witness ==
    /\ author = Some(<<"@", "s", " ", "(", "@">> \o Undefined
                     \o <<",", " ", "F", ")">>)
    /\ payload.withNickname = Some(TRUE)
    /\ payload.personaNickname = Some(<<"n">>)
    /\ payload.personaUid = Absent

\* One call of fetchWithRetry spends its budget one level at a time, whether
\* the level ended in a 429 or in a thrown error.
C20_Budget ==
    /\ attempts <= DefaultRetries + 1
    /\ pauses <= DefaultRetries
    /\ pc = "fetch" =>
          /\ Len(frames) = attempts
          /\ retries = DefaultRetries - Len(frames)
          /\ pauses = Len(frames)

\* A level that retries opens one more call and never comes back to retry
\* again; the level without budget ends the call, whatever its fetch gave.
C20_LevelStep ==
    /\ (pc = "fetch" /\ pc' = "fetch") =>
          /\ retries > 0 /\ retries' = retries - 1
          /\ \E site \in {"try", "catch"} : frames' = Append(frames, site)
    /\ (pc = "fetch" /\ retries = 0) =>
          /\ pc' \in {"pageFetched", "repliesFetched"}
          /\ result' \in {Response(s) : s \in {200, 429, 500}} \cup {NetError}

\* C20: 429 answers and thrown errors draw on one retry budget: a call with
\* budget r makes at most r + 1 attempts and r pauses, however the two are
\* mixed, and what an inner retry throws is not caught and retried again by
\* an outer level.
C20_SharedBudget == []C20_Budget /\ [][C20_LevelStep]_vars

C20_Witness ==
    /\ pc = "fetch"
    /\ retries = 0
    /\ frames = <<"try", "catch", "try">>
    /\ attempts = DefaultRetries

TypeOK ==
    /\ pc \in {"main", "storeArticle", "pageLoop", "fetch", "pageFetched",
               "nextItem", "storeComment", "repliesFetched", "joinReplies",
               "commentsDone", "finished"}
    /\ i \in 0..MAX_COMMENT_PAGES
    /\ retries \in 0..DefaultRetries
    /\ idx \in 0..Len(page.items)

====
